---- MODULE Spec2Model ----
(***************************************************************************)
(* NUMA topology construction of drmgr (src/drmgr/common_numa.c):          *)
(* the node registry (ppcnuma_fetch_node), live discovery                  *)
(* (read_numa_topology), the LMB allocator (create_lmbs), the static       *)
(* loader (ppcnuma_get_config) and the entry point (ppcnuma_get_topology). *)
(*                                                                         *)
(* Memory model.  Node structures live in `heap', a function from the      *)
(* pointers zalloc returned to the structures (NULL is 0).  zalloc gives   *)
(* memory no live object occupies and nodes are never freed, so which      *)
(* address it gives is immaterial: the model names the address by the id   *)
(* the node is allocated for (NodeAddr).  `numa' is the one topology object of *)
(* the process: the `numa' parameter of the functions and the `numa'       *)
(* object create_lmbs updates are the same object.  numa.nodes has the     *)
(* MAX_NUMNODES slots of the array plus the memory word on either side of  *)
(* it (index -1 and index MAX_NUMNODES), because the guard of              *)
(* ppcnuma_fetch_node lets those two indexes through.  The content of the  *)
(* outside words is not the topology's: a run starts with them holding     *)
(* either zero or a foreign non-zero value (GARBAGE), both are explored.   *)
(***************************************************************************)
EXTENDS Integers, Sequences, FiniteSets, TLC

(* ------------------------------ bounds -------------------------------- *)
\* capacity of the registry, scaled down (the header's value is not in src/)
MAX_NUMNODES == 2
\* cpus->size: number of bits of a CPU mask
CpuMaskSize == 2
\* longest "nodes" list of a configuration file
MaxEntries == 2
\* create_lmbs calls explored per run (each leaves one LMB list on the heap)
MaxLists == 2
\* live discovery is explored while cpu_count is at most this
MaxCpus == 1

(* ----------------------------- constants ------------------------------ *)
\* static unsigned int drc_index = 0xdeadbeef, as two 16-bit halves
DRC_SEED_HI == 57005
DRC_SEED_LO == 48879
\* errno values
ENOENT == 2
ENOMEM == 12
EINVAL == 22

NULL    == 0
\* a non-zero word that is no node of this topology
GARBAGE == -1

VARIABLES
    numa,         \* struct ppcnuma_topology
    heap,         \* the struct ppcnuma_node objects zalloc returned
    drc_index,    \* static unsigned int drc_index of create_lmbs
    lmb_lists,    \* the lmb_list_head objects create_lmbs allocated, oldest first
    numa_enabled, \* int numa_enabled
    test_option,  \* whether the process runs with a test configuration file
    cfg,          \* content of that file
    platform,     \* what libnuma reports about the machine
    last          \* the last call: which function, its arguments, where it returned

vars == <<numa, heap, drc_index, lmb_lists, numa_enabled, test_option, cfg,
          platform, last>>

\* indexes of numa.nodes that the array owns
ArraySlots == 0 .. (MAX_NUMNODES - 1)
\* the array and the word before and after it
Slots == -1 .. MAX_NUMNODES
\* node ids callers pass: every kind of id around the array
NidInputs == -1 .. (MAX_NUMNODES + 1)

(* ------------------------- 32-bit unsigned ---------------------------- *)
\* An unsigned int is kept as <<high 16 bits, low 16 bits>>.
Half == 256 * 256

\* w + k modulo 2^32, for 0 <= k < 2^31  (drc_index++ applied k times)
AddU32(w, k) ==
    LET lo == w[2] + (k % Half)
        hi == w[1] + (k \div Half) + (lo \div Half)
    IN  <<hi % Half, lo % Half>>

LessU32(a, b) == a[1] < b[1] \/ (a[1] = b[1] /\ a[2] < b[2])

\* number of drc_index++ steps after which the counter is back at 0
WrapDraws == (Half - 1 - DRC_SEED_HI) * Half + (Half - DRC_SEED_LO)

(* --------------------------- node registry ---------------------------- *)
\* zalloc(sizeof(struct ppcnuma_node)): a zeroed node
ZeroNode == [node_id |-> 0, n_cpus |-> 0, n_lmbs |-> 0, lmbs |-> <<>>]

\* the topology before anything was stored: static storage, all zero,
\* except the two words outside the array, which hold `outside'
EmptyNuma(outside) ==
    [nodes |-> [s \in Slots |-> IF s \in ArraySlots THEN NULL ELSE outside],
     node_count |-> 0, node_min |-> 0, node_max |-> 0,
     cpu_count |-> 0, lmb_count |-> 0, cpuless_lmb_count |-> 0,
     min_common_depth |-> 0]

\* line 45: the address zalloc returns for the node of id nid
NodeAddr(nid) == nid + 2

\* line 36: the range check of ppcnuma_fetch_node
NidRejected(nid) == nid > MAX_NUMNODES

\* the lookup forgotten: every call takes the slot for empty
SlotNodeForgotten(n, nid) == NULL

\* lines 41-42: the slot already holds a node
SlotNode(n, nid) == n.nodes[nid]

\* lines 53-54
NewNodeMin(n, nid) ==
    IF n.node_count = 0 \/ nid < n.node_min THEN nid ELSE n.node_min

\* lines 55-56
NewNodeMax(n, nid) ==
    IF nid > n.node_max THEN nid ELSE n.node_max

\* lines 58-59
StoreNode(n, nid, ptr) ==
    [n EXCEPT !.nodes[nid] = ptr, !.node_count = @ + 1]

\* ppcnuma_fetch_node(numa, nid) on topology n and heap h; zalloc_ok tells
\* whether zalloc succeeds if it is called.  Gives the topology and heap
\* after the call, the pointer returned and the return statement taken.
ppcnuma_fetch_node(n, h, nid, zalloc_ok) ==
    IF NidRejected(nid)
    THEN [numa |-> n, heap |-> h, ret |-> NULL, path |-> "invalid"]
    ELSE IF SlotNode(n, nid) # NULL
    THEN [numa |-> n, heap |-> h, ret |-> SlotNode(n, nid), path |-> "found"]
    ELSE IF ~zalloc_ok
    THEN [numa |-> n, heap |-> h, ret |-> NULL, path |-> "oom"]
    ELSE LET ptr == NodeAddr(nid)
             n1  == [n EXCEPT !.node_min = NewNodeMin(n, nid)]
             n2  == [n1 EXCEPT !.node_max = NewNodeMax(n1, nid)]
         IN  [numa |-> StoreNode(n2, nid, ptr),
              heap |-> h @@ (ptr :> [ZeroNode EXCEPT !.node_id = nid]),
              ret  |-> ptr,
              path |-> "created"]

(* --------------------------- live discovery --------------------------- *)
\* What libnuma reports about the machine: numa_max_node(), the set bits of
\* numa_nodes_ptr, and for each present node the set bits of its CPU mask.
\* The masks explored: no CPU, only the last bit, every bit.
CpuMasks == {{}, {CpuMaskSize - 1}, 0 .. (CpuMaskSize - 1)}

NoPlatform == [max_node |-> 0, present |-> {}, cpus |-> << >>]

Platforms ==
    {NoPlatform}
    \cup
    UNION { UNION { { [max_node |-> m, present |-> p, cpus |-> c] :
                        c \in [p -> CpuMasks] } :
                    p \in (SUBSET (0 .. m)) \ {{}} } :
            m \in 0 .. (MAX_NUMNODES - 1) }
    \cup
    { [max_node |-> MAX_NUMNODES, present |-> {0},
       cpus |-> [x \in {0} |-> {0}]] }

\* the loop stopping one bit early
RECURSIVE CountCpusShort(_, _, _)
CountCpusShort(mask, i, n_cpus) ==
    IF i >= CpuMaskSize - 1 THEN n_cpus
    ELSE CountCpusShort(mask, i + 1, IF i \in mask THEN n_cpus + 1 ELSE n_cpus)

\* lines 105-107: for (i = 0; i < cpus->size; i++) if bit i is set, n_cpus++
RECURSIVE CountCpus(_, _, _)
CountCpus(mask, i, n_cpus) ==
    IF i >= CpuMaskSize THEN n_cpus
    ELSE CountCpus(mask, i + 1, IF i \in mask THEN n_cpus + 1 ELSE n_cpus)

\* ppcnuma_foreach_node(numa, nid, node): the populated slots from node_min
\* to node_max
ppcnuma_foreach_node(n) ==
    { nid \in Slots : /\ n.node_min <= nid
                      /\ nid <= n.node_max
                      /\ n.nodes[nid] # NULL }

\* the rollback clearing the total and leaving the nodes
ResetCpusTotalOnly(n, h) == [numa |-> [n EXCEPT !.cpu_count = 0], heap |-> h]

\* lines 114-118: the rollback after a failed scan
ResetCpus(n, h) ==
    [numa |-> [n EXCEPT !.cpu_count = 0],
     heap |-> [a \in DOMAIN h |->
                 IF \E nid \in ppcnuma_foreach_node(n) : n.nodes[nid] = a
                 THEN [h[a] EXCEPT !.n_cpus = 0]
                 ELSE h[a]]]

\* line 109
AddCpuCount(n, node) == [n EXCEPT !.cpu_count = @ + node.n_cpus]

\* What fails during one scan: nothing, the node allocation for node
\* fail.nid (if the scan allocates it), or numa_node_to_cpus for it.
ScanFailures(plat) ==
    {[kind |-> "none", nid |-> 0]}
    \cup { [kind |-> k, nid |-> x] : k \in {"oom", "cpus"}, x \in plat.present }

\* lines 89-110: the scan from nid on; gives topology, heap and rc
RECURSIVE ScanNodes(_, _, _, _, _)
ScanNodes(n, h, nid, plat, fail) ==
    IF nid > plat.max_node THEN [numa |-> n, heap |-> h, rc |-> 0]
    ELSE IF nid \notin plat.present THEN ScanNodes(n, h, nid + 1, plat, fail)
    ELSE LET f == ppcnuma_fetch_node(n, h, nid,
                                     ~(fail.kind = "oom" /\ fail.nid = nid))
         IN  IF f.ret = NULL
             THEN [numa |-> f.numa, heap |-> f.heap, rc |-> -ENOMEM]
             ELSE IF fail.kind = "cpus" /\ fail.nid = nid
             THEN [numa |-> f.numa, heap |-> f.heap, rc |-> -1]
             ELSE LET node == [f.heap[f.ret] EXCEPT
                                 !.n_cpus = CountCpus(plat.cpus[nid], 0, @)]
                  IN  ScanNodes(AddCpuCount(f.numa, node),
                                [f.heap EXCEPT ![f.ret] = node],
                                nid + 1, plat, fail)

\* the bound taken as inclusive
TooManyNodesAbove(max_node) == max_node > MAX_NUMNODES

\* line 78
TooManyNodes(max_node) == max_node >= MAX_NUMNODES

\* read_numa_topology(numa); avail is what numa_available() returns
read_numa_topology(n, h, plat, avail, fail) ==
    IF avail < 0
    THEN [numa |-> n, heap |-> h, rc |-> -ENOENT, path |-> "no_numa"]
    ELSE IF TooManyNodes(plat.max_node)
    THEN [numa |-> n, heap |-> h, rc |-> -EINVAL, path |-> "too_many"]
    ELSE LET s == ScanNodes(n, h, 0, plat, fail)
         IN  IF s.rc # 0
             THEN LET r == ResetCpus(s.numa, s.heap)
                  IN  [numa |-> r.numa, heap |-> r.heap, rc |-> s.rc,
                       path |-> "scan_failed"]
             ELSE [numa |-> s.numa, heap |-> s.heap, rc |-> 0,
                   path |-> "scanned"]

(* --------------------------- block allocator -------------------------- *)
\* The slots of one create_lmbs(node, count) call whose lmb_list_add may
\* succeed: the first and the last.  For count <= 2 these are all slots;
\* of a longer run every slot in between fails (memory is exhausted).
AllocOffsets(count) == {0, count - 1} \cap (0 .. (count - 1))

\* lmb_list_add(drc, lmb_list) succeeding: a new LMB with that DRC index at
\* the tail of the list
lmb_list_add(drc, lmb_list) == Append(lmb_list, drc)

\* every LMB counted as one of a node with CPUs
CountLmbAlwaysCpu(n, node) == [n EXCEPT !.lmb_count = @ + 1]

\* lines 148-151: which total counts an LMB given to node
CountLmb(n, node) ==
    IF node.n_cpus # 0
    THEN [n EXCEPT !.lmb_count = @ + 1]
    ELSE [n EXCEPT !.cpuless_lmb_count = @ + 1]

\* the LMB put at the tail of the node's list
LinkLmbAtTail(node, drc) ==
    [node EXCEPT !.lmbs = Append(@, drc), !.n_lmbs = @ + 1]

\* the LMB linked and not counted in the node
LinkLmbUncounted(node, drc) == [node EXCEPT !.lmbs = <<drc>> \o @]

\* lines 144-146: the LMB of DRC index drc goes to the head of the node's list
LinkLmb(node, drc) ==
    [node EXCEPT !.lmbs = <<drc>> \o @, !.n_lmbs = @ + 1]

\* line 141: the value the slot at offset i of a call draws, when the
\* counter was drc at the start of the call
DrawnIndex(drc, i) == AddU32(drc, i)

\* line 140-155: the counter after a call's count slots
DrcAfter(drc, count) == IF count > 0 THEN AddU32(drc, count) ELSE drc

\* the loop left at the first slot that fails
RECURSIVE AddLmbsAbort(_, _, _, _, _, _)
AddLmbsAbort(n, h, lmb_list, ptr, drc, todo) ==
    IF Len(lmb_list) \notin todo
    THEN [numa |-> n, heap |-> h, lmb_list |-> lmb_list]
    ELSE LET i == Len(lmb_list)
             d == DrawnIndex(drc, i)
         IN  AddLmbsAbort(CountLmb(n, h[ptr]),
                          [h EXCEPT ![ptr] = LinkLmb(@, d)],
                          lmb_list_add(d, lmb_list), ptr, drc, todo \ {i})

\* lines 140-155: the slots of `todo' in increasing order; a slot outside
\* `todo' fails and does nothing but advance the counter
RECURSIVE AddLmbs(_, _, _, _, _, _)
AddLmbs(n, h, lmb_list, ptr, drc, todo) ==
    IF todo = {} THEN [numa |-> n, heap |-> h, lmb_list |-> lmb_list]
    ELSE LET i == CHOOSE x \in todo : \A y \in todo : x <= y
             d == DrawnIndex(drc, i)
         IN  AddLmbs(CountLmb(n, h[ptr]),
                     [h EXCEPT ![ptr] = LinkLmb(@, d)],
                     lmb_list_add(d, lmb_list), ptr, drc, todo \ {i})

\* create_lmbs(node, count): ptr is the node; list_ok tells whether the
\* list head is allocated, ok the slots whose lmb_list_add succeeds
create_lmbs(n, h, drc, lists, ptr, count, list_ok, ok) ==
    IF ~list_ok
    THEN [numa |-> n, heap |-> h, drc |-> drc, lists |-> lists]
    ELSE LET r == AddLmbs(n, h, << >>, ptr, drc, ok \cap (0 .. (count - 1)))
         IN  [numa |-> r.numa, heap |-> r.heap,
              drc |-> DrcAfter(drc, count),
              lists |-> Append(lists, r.lmb_list)]

(* ---------------------------- static loader --------------------------- *)
\* The entries configuration files are made of: (node, cpus, mem), a field
\* the file leaves out reading as -1 (lines 189-195).
EntryPool ==
    { [nid |-> 0, cpus |-> 2, mem |-> 1],
      [nid |-> 1, cpus |-> 0, mem |-> 2],
      [nid |-> 0, cpus |-> 0, mem |-> 1],
      [nid |-> -1, cpus |-> -1, mem |-> -1],
      [nid |-> MAX_NUMNODES, cpus |-> 1, mem |-> 1],
      [nid |-> MAX_NUMNODES + 1, cpus |-> 1, mem |-> 1] }

\* an entry with so many blocks that the 32-bit counter passes 0xffffffff
\* inside the call: its last slot draws 0
WrapEntry == [nid |-> 1, cpus |-> 1, mem |-> WrapDraws + 1]

\* the largest int: the most blocks one entry can ask for
INT_MAX == (Half \div 2 - 1) * Half + (Half - 1)

\* a file whose three entries make 2^32 + 1 draws: the last slot of the
\* third entry draws what the first slot of the first entry drew
ReuseEntries ==
    << [nid |-> 0, cpus |-> 1, mem |-> INT_MAX],
       [nid |-> 0, cpus |-> 1, mem |-> INT_MAX],
       [nid |-> 0, cpus |-> 1, mem |-> 3] >>

\* a file config_read_file rejects, or one whose "nodes" list has up to
\* MaxEntries entries (a file without "nodes" loads like an empty list)
Cfgs ==
    {[readable |-> FALSE, entries |-> << >>]}
    \cup { [readable |-> TRUE, entries |-> e] :
             e \in UNION { [1 .. k -> EntryPool] : k \in 0 .. MaxEntries } }

\* What the allocations made for one entry do.
EntryOutcomes(e) ==
    {[node_ok |-> FALSE, list_ok |-> TRUE, ok |-> {}],
     [node_ok |-> TRUE, list_ok |-> FALSE, ok |-> {}]}
    \cup { [node_ok |-> TRUE, list_ok |-> TRUE, ok |-> s] :
             s \in SUBSET AllocOffsets(e.mem) }

\* line 201
SetCpus(node, cpus) == [node EXCEPT !.n_cpus = cpus]

\* lines 187-203: the entries from i on.  st holds the topology, the heap,
\* the counter and the lists.
RECURSIVE LoadEntries(_, _, _, _)
LoadEntries(st, entries, out, i) ==
    IF i > Len(entries) THEN [st EXCEPT !.path = "cfg_ok"]
    ELSE LET e == entries[i]
             f == ppcnuma_fetch_node(st.numa, st.heap, e.nid, out[i].node_ok)
         IN  IF f.ret = NULL
             THEN [st EXCEPT !.numa = f.numa, !.heap = f.heap,
                             !.path = "cfg_fetch_failed"]
             ELSE IF f.ret = GARBAGE
             THEN [st EXCEPT !.numa = f.numa, !.heap = f.heap,
                             !.path = "cfg_wild_pointer"]
             ELSE LET h1 == [f.heap EXCEPT ![f.ret] = SetCpus(@, e.cpus)]
                      c  == create_lmbs(f.numa, h1, st.drc, st.lists, f.ret,
                                        e.mem, out[i].list_ok, out[i].ok)
                  IN  LoadEntries([st EXCEPT !.numa = c.numa, !.heap = c.heap,
                                             !.drc = c.drc, !.lists = c.lists],
                                  entries, out, i + 1)

\* the mark set by every load
MarkEnabledAlways(enabled, loaded) == 1

\* lines 181, 198, 206: numa_enabled = 1 is reached only by a load that
\* returns 0
MarkEnabled(enabled, loaded) == IF loaded THEN 1 ELSE enabled

\* ppcnuma_get_config(numa, cfgfile)
ppcnuma_get_config(n, h, drc, lists, enabled, file, out) ==
    LET st == [numa |-> n, heap |-> h, drc |-> drc, lists |-> lists,
               path |-> "none"]
    IN  IF ~file.readable
        THEN [st EXCEPT !.path = "cfg_parse_error"] @@
             [rc |-> -1, enabled |-> MarkEnabled(enabled, FALSE)]
        ELSE LET r == LoadEntries(st, file.entries, out, 1)
             IN  IF r.path = "cfg_ok"
                 THEN r @@ [rc |-> 0, enabled |-> MarkEnabled(enabled, TRUE)]
                 ELSE r @@ [rc |-> -1, enabled |-> MarkEnabled(enabled, FALSE)]

(* ------------------------------ the calls ----------------------------- *)
\* The record of a call: the function called from outside (op), the
\* return statement it took (path), the topology it was given (before), for
\* ppcnuma_fetch_node the id passed and the pointer returned (nid, ret), for
\* ppcnuma_get_topology the value returned (rc), in a test run what the
\* allocations of each entry did (out) and in a live run what the platform
\* answered (in).
NoCall ==
    [op |-> "none", path |-> "none", nid |-> 0, ret |-> NULL, rc |-> 0,
     out |-> << >>, before |-> EmptyNuma(NULL),
     in |-> [avail1 |-> 0, depth |-> 0, assoc |-> 0, avail2 |-> 0,
             fail |-> [kind |-> "none", nid |-> 0]]]

\* a caller outside this file calls ppcnuma_fetch_node(&numa, nid)
FetchNode ==
    /\ last.path # "cfg_wild_pointer"
    /\ \E nid \in NidInputs, zalloc_ok \in BOOLEAN :
         LET r == ppcnuma_fetch_node(numa, heap, nid, zalloc_ok)
         IN  /\ numa' = r.numa
             /\ heap' = r.heap
             /\ last' = [NoCall EXCEPT !.op = "fetch_node", !.path = r.path,
                                       !.nid = nid, !.ret = r.ret,
                                       !.before = numa]
             /\ UNCHANGED <<drc_index, lmb_lists, numa_enabled, test_option,
                            cfg, platform>>

\* a negative depth taken for a depth
DepthNeverFailed(depth) == FALSE

\* line 225
DepthFailed(depth) == depth < 0

\* lines 220-241 of ppcnuma_get_topology: the live path.  avail1 and avail2
\* are the two results of numa_available(), depth the result of
\* get_min_common_depth(), assoc the result of get_assoc_arrays().
LiveTopology(n, h, plat, avail1, depth, assoc, avail2, fail) ==
    IF avail1 < 0
    THEN [numa |-> n, heap |-> h, rc |-> avail1, path |-> "unavailable"]
    ELSE IF DepthFailed(depth)
    THEN [numa |-> n, heap |-> h, rc |-> depth, path |-> "no_depth"]
    ELSE LET n1 == [n EXCEPT !.min_common_depth = depth]
         IN  IF assoc # 0
             THEN [numa |-> n1, heap |-> h, rc |-> assoc, path |-> "no_assoc"]
             ELSE LET r == read_numa_topology(n1, h, plat, avail2, fail)
                  IN  IF r.rc # 0
                      THEN [numa |-> r.numa, heap |-> r.heap, rc |-> r.rc,
                            path |-> r.path]
                      ELSE IF r.numa.node_count = 0
                      THEN [numa |-> r.numa, heap |-> r.heap, rc |-> -1,
                            path |-> "no_nodes"]
                      ELSE [numa |-> r.numa, heap |-> r.heap, rc |-> 0,
                            path |-> "live_ok"]

\* The results the external calls of one live ppcnuma_get_topology would
\* give: one of them failing, or several at once (a call the code does not
\* reach is not made, whatever it would give).  Each kind of call fails
\* with a value of its own.
LiveInputs(plat) ==
    LET none == [kind |-> "none", nid |-> 0]
        in(a1, d, as, a2, f) ==
            [avail1 |-> a1, depth |-> d, assoc |-> as, avail2 |-> a2, fail |-> f]
    IN  {in(-1, 1, 0, 0, none), in(0, -2, 0, 0, none), in(0, 1, -3, 0, none),
         in(0, 1, 0, -1, none),
         in(-1, -2, -3, 0, none), in(0, -2, -3, 0, none)}
        \cup {in(0, 1, 0, 0, f) : f \in ScanFailures(plat)}

\* ppcnuma_get_topology(&numa) in a process without a test file
GetTopologyLive ==
    /\ ~test_option
    /\ numa.cpu_count <= MaxCpus
    /\ \E in \in LiveInputs(platform) :
        LET r == LiveTopology(numa, heap, platform, in.avail1, in.depth,
                              in.assoc, in.avail2, in.fail)
        IN  /\ numa' = r.numa
            /\ heap' = r.heap
            /\ last' = [NoCall EXCEPT !.op = "get_topology", !.path = r.path,
                                      !.rc = r.rc, !.before = numa,
                                      !.in = in]
            /\ UNCHANGED <<drc_index, lmb_lists, numa_enabled, test_option,
                           cfg, platform>>

\* lines 216-218 of ppcnuma_get_topology: a process run with a test file
GetTopologyTest ==
    /\ test_option
    /\ last.path # "cfg_wild_pointer"
    /\ lmb_lists = << >> \/ Len(lmb_lists) + Len(cfg.entries) <= MaxLists
    /\ \E out \in [DOMAIN cfg.entries ->
                      UNION {EntryOutcomes(cfg.entries[i]) :
                                i \in DOMAIN cfg.entries}] :
        /\ \A i \in DOMAIN cfg.entries : out[i] \in EntryOutcomes(cfg.entries[i])
        /\ LET r == ppcnuma_get_config(numa, heap, drc_index, lmb_lists,
                                       numa_enabled, cfg, out)
           IN  /\ numa' = r.numa
               /\ heap' = r.heap
               /\ drc_index' = r.drc
               /\ lmb_lists' = r.lists
               /\ numa_enabled' = r.enabled
               /\ last' = [NoCall EXCEPT !.op = "get_topology",
                                         !.path = r.path, !.rc = r.rc,
                                         !.out = out, !.before = numa]
               /\ UNCHANGED <<test_option, cfg, platform>>

NoCfg == [readable |-> FALSE, entries |-> << >>]

InitTest ==
    /\ test_option = TRUE
    /\ cfg \in Cfgs
    /\ platform = NoPlatform

InitLive ==
    /\ test_option = FALSE
    /\ cfg = NoCfg
    /\ platform \in Platforms

\* the state of the process when main() starts
InitProcess ==
    /\ \E outside \in {NULL, GARBAGE} : numa = EmptyNuma(outside)
    /\ heap = << >>
    /\ drc_index = <<DRC_SEED_HI, DRC_SEED_LO>>
    /\ lmb_lists = << >>
    /\ numa_enabled = 0
    /\ last = NoCall

Init == InitProcess /\ (InitLive \/ InitTest)

Next ==
    \/ FetchNode
    \/ GetTopologyLive
    \/ GetTopologyTest

Spec == Init /\ [][Next]_vars

\* the node registry alone: only ppcnuma_fetch_node is called
InitFetch ==
    /\ InitProcess
    /\ test_option = FALSE
    /\ cfg = NoCfg
    /\ platform = NoPlatform

SpecFetch == InitFetch /\ [][FetchNode]_vars

\* processes without a test file
NextLive ==
    \/ FetchNode
    \/ GetTopologyLive

StartLive == InitProcess /\ InitLive

SpecLive == StartLive /\ [][NextLive]_vars

\* processes run with a test file
NextTest ==
    \/ FetchNode
    \/ GetTopologyTest

StartTest == InitProcess /\ InitTest

SpecTest == StartTest /\ [][NextTest]_vars

SpecLoad == StartTest /\ [][GetTopologyTest]_vars

\* processes run with a test file that has an entry of WrapDraws + 1 blocks
InitWrap ==
    /\ test_option = TRUE
    /\ cfg \in { [readable |-> TRUE, entries |-> e] :
                    e \in { <<WrapEntry>>, <<[nid |-> 0, cpus |-> 2, mem |-> 1],
                                             WrapEntry>> } }
    /\ platform = NoPlatform

StartWrap == InitProcess /\ InitWrap

SpecWrap == StartWrap /\ [][NextTest]_vars

\* processes run with a test file that makes the counter come back to a
\* value it had
InitReuse ==
    /\ test_option = TRUE
    /\ cfg = [readable |-> TRUE, entries |-> ReuseEntries]
    /\ platform = NoPlatform

StartReuse == InitProcess /\ InitReuse

SpecReuse == StartReuse /\ [][NextTest]_vars

(* ------------------------------ the claims ---------------------------- *)
\* the slots that hold a node of the topology
Populated(n) == { s \in Slots : n.nodes[s] # NULL /\ n.nodes[s] # GARBAGE }

\* the ids nodes were created for
CreatedIds == { heap[p].node_id : p \in DOMAIN heap }

SetMin(S) == CHOOSE x \in S : \A y \in S : x <= y
SetMax(S) == CHOOSE x \in S : \A y \in S : x >= y

\* the sum of the values of a function with a finite domain
RECURSIVE SumFn(_)
SumFn(f) ==
    IF DOMAIN f = {} THEN 0
    ELSE LET x == CHOOSE y \in DOMAIN f : TRUE
         IN  f[x] + SumFn([y \in DOMAIN f \ {x} |-> f[y]])

\* C1: fetch-or-create is idempotent per valid node id.  A call for an id
\* whose slot is empty and that allocates creates the node: it stores the
\* pointer it returns and adds one to node_count.  From then on the slot
\* keeps that pointer, and every call for the id returns it and leaves the
\* topology (node_count, node_min, node_max, every slot) and the nodes as
\* they were.
C1_FetchIdempotent ==
    [][\A nid \in ArraySlots :
         LET called == last'.op = "fetch_node" /\ last'.nid = nid
         IN  /\ numa.nodes[nid] # NULL =>
                  /\ numa'.nodes[nid] = numa.nodes[nid]
                  /\ called => /\ last'.path = "found"
                               /\ last'.ret = numa.nodes[nid]
                               /\ numa' = numa
                               /\ heap' = heap
             /\ (numa.nodes[nid] = NULL /\ called /\ last'.path = "created") =>
                  /\ last'.ret # NULL
                  /\ numa'.nodes[nid] = last'.ret
                  /\ numa'.node_count = numa.node_count + 1
             /\ (numa.nodes[nid] = NULL /\ called /\ last'.path # "created") =>
                  /\ last'.ret = NULL
                  /\ numa' = numa
      ]_vars

\* C1 witness: a repeated call for a valid id returned the node that the
\* topology already held, with a second node present
C1_Witness ==
    /\ last.op = "fetch_node"
    /\ last.path = "found"
    /\ last.nid \in ArraySlots
    /\ last.ret = numa.nodes[last.nid]
    /\ numa.node_count >= 2

\* C2: once a node was created, node_min is the smallest and node_max the
\* largest id a node was created for
C2_MinMaxOfCreated ==
    DOMAIN heap # {} =>
        /\ numa.node_min = SetMin(CreatedIds)
        /\ numa.node_max = SetMax(CreatedIds)

\* C3: a call with an id outside [0, MAX_NUMNODES) returns no node and
\* leaves the topology as it was given
C3_OutOfRangeRejected ==
    (last.op = "fetch_node" /\ last.nid \notin ArraySlots) =>
        /\ last.ret = NULL
        /\ numa = last.before

\* the DRC indexes of the LMBs created so far, in the order of creation
RECURSIVE Flatten(_)
Flatten(lists) ==
    IF lists = << >> THEN << >> ELSE Head(lists) \o Flatten(Tail(lists))

\* C4: the DRC indexes of the LMBs created over all create_lmbs calls are
\* strictly increasing in the order of creation (hence pairwise distinct)
C4_DrcIncreasing ==
    LET all == Flatten(lmb_lists)
    IN  \A i, j \in DOMAIN all : i < j => LessU32(all[i], all[j])

\* the node a populated slot points to
NodeAt(s) == heap[numa.nodes[s]]

\* C5: the n_lmbs of the nodes of the topology add up to
\* lmb_count + cpuless_lmb_count
C5_LmbSum ==
    SumFn([s \in Populated(numa) |-> NodeAt(s).n_lmbs])
        = numa.lmb_count + numa.cpuless_lmb_count

\* C5 witness: one node holds all the LMBs, some counted in lmb_count and
\* some in cpuless_lmb_count (its id was loaded twice, with and without
\* CPUs)
C5_Witness ==
    /\ Cardinality(Populated(numa)) = 1
    /\ numa.lmb_count > 0
    /\ numa.cpuless_lmb_count > 0
    /\ \E s \in Populated(numa) : NodeAt(s).n_lmbs >= 2

\* the nodes the last call created
NewSlots == Populated(numa) \ Populated(last.before)

\* C6: when the scan of live discovery fails, every node of the topology
\* has n_cpus = 0 and cpu_count is 0; the nodes the topology had are still
\* there with those the scan created before it failed, and node_count,
\* node_min and node_max count and bound them all
C6_FailedScanRollback ==
    (last.op = "get_topology" /\ last.path = "scan_failed") =>
        /\ last.rc # 0
        /\ \A s \in Populated(numa) : NodeAt(s).n_cpus = 0
        /\ numa.cpu_count = 0
        /\ \A s \in Populated(last.before) : numa.nodes[s] = last.before.nodes[s]
        /\ NewSlots \subseteq platform.present
        /\ numa.node_count = last.before.node_count + Cardinality(NewSlots)
        /\ numa.node_min =
              IF NewSlots = {} THEN last.before.node_min
              ELSE IF last.before.node_count = 0 THEN SetMin(NewSlots)
              ELSE SetMin(NewSlots \cup {last.before.node_min})
        /\ numa.node_max = SetMax(NewSlots \cup {last.before.node_max})

\* C6 witness: a first scan created two nodes, counted the CPUs of node 0
\* and failed at node 1; both nodes remain, without CPUs
C6_Witness ==
    /\ last.op = "get_topology"
    /\ last.path = "scan_failed"
    /\ last.before.node_count = 0
    /\ numa.node_count = 2
    /\ 0 \in platform.present
    /\ platform.cpus[0] # {}
    /\ numa.nodes[0] # NULL
    /\ NodeAt(0).n_cpus = 0

\* the entries of the file name pairwise distinct ids of [0, MAX_NUMNODES)
DistinctValidIds(entries) ==
    /\ \A i \in DOMAIN entries : entries[i].nid \in ArraySlots
    /\ \A i, j \in DOMAIN entries : i # j => entries[i].nid # entries[j].nid

\* C7: after a successful load of entries with pairwise distinct valid ids
\* into an empty topology, cpu_count is the sum of the entries' CPU counts,
\* node_count the number of entries, node_min and node_max the smallest and
\* largest id
C7_LoadTotals ==
    ( /\ last.op = "get_topology"
      /\ last.path = "cfg_ok"
      /\ last.before.node_count = 0
      /\ DistinctValidIds(cfg.entries) ) =>
        /\ numa.cpu_count = SumFn([i \in DOMAIN cfg.entries |-> cfg.entries[i].cpus])
        /\ numa.node_count = Len(cfg.entries)
        /\ cfg.entries # << >> =>
              /\ numa.node_min = SetMin({cfg.entries[i].nid : i \in DOMAIN cfg.entries})
              /\ numa.node_max = SetMax({cfg.entries[i].nid : i \in DOMAIN cfg.entries})

\* the number of LMBs the allocations of entry i of the last load created
CreatedFor(i) ==
    IF last.out[i].list_ok
    THEN Cardinality(last.out[i].ok \cap (0 .. (cfg.entries[i].mem - 1)))
    ELSE 0

\* every allocation of the last load succeeded
AllSucceeded ==
    \A i \in DOMAIN cfg.entries :
        /\ last.out[i].node_ok
        /\ last.out[i].list_ok
        /\ last.out[i].ok = 0 .. (cfg.entries[i].mem - 1)

\* the mem of an entry as a number of loop iterations
Blocks(e) == IF e.mem > 0 THEN e.mem ELSE 0

\* C8: a load that returns success adds to cpuless_lmb_count the LMBs
\* created for its entries with cpus = 0 and to lmb_count those created for
\* its entries with cpus > 0, and nothing else; when every allocation
\* succeeds that is the mem of those entries
C8_LmbTotals ==
    (last.op = "get_topology" /\ last.path = "cfg_ok") =>
        LET e == cfg.entries
            with == { i \in DOMAIN e : e[i].cpus > 0 }
            without == { i \in DOMAIN e : e[i].cpus = 0 }
            d_lmb == numa.lmb_count - last.before.lmb_count
            d_cpuless == numa.cpuless_lmb_count - last.before.cpuless_lmb_count
        IN  /\ \A i \in DOMAIN e : e[i].cpus >= 0 \/ CreatedFor(i) = 0
            /\ d_lmb = SumFn([i \in with |-> CreatedFor(i)])
            /\ d_cpuless = SumFn([i \in without |-> CreatedFor(i)])
            /\ AllSucceeded =>
                  /\ d_lmb = SumFn([i \in with |-> Blocks(e[i])])
                  /\ d_cpuless = SumFn([i \in without |-> Blocks(e[i])])

\* C8 witness: a load of an entry with CPUs and one block and an entry
\* without CPUs and two blocks, every allocation succeeding
C8_Witness ==
    /\ last.op = "get_topology"
    /\ last.path = "cfg_ok"
    /\ AllSucceeded
    /\ \E i \in DOMAIN cfg.entries : cfg.entries[i].cpus > 0 /\ cfg.entries[i].mem = 1
    /\ \E i \in DOMAIN cfg.entries : cfg.entries[i].cpus = 0 /\ cfg.entries[i].mem = 2
    /\ numa.lmb_count = last.before.lmb_count + 1
    /\ numa.cpuless_lmb_count = last.before.cpuless_lmb_count + 2

\* C9: ppcnuma_get_topology returns 0 only with a node in the topology
C9_NoEmptySuccess ==
    (last.op = "get_topology" /\ last.rc = 0) => numa.node_count > 0

\* C10: after live discovery succeeds on an empty topology the nodes are
\* those of the ids the platform marks present, each with as many CPUs as
\* its mask has bits set and without LMBs, and cpu_count is the sum
C10_LiveDiscovery ==
    ( /\ last.op = "get_topology"
      /\ last.path \in {"live_ok", "no_nodes"}
      /\ last.before.node_count = 0 ) =>
        /\ Populated(numa) = platform.present
        /\ numa.node_count = Cardinality(platform.present)
        /\ \A s \in platform.present :
              /\ NodeAt(s).node_id = s
              /\ NodeAt(s).n_cpus =
                    Cardinality(platform.cpus[s] \cap (0 .. (CpuMaskSize - 1)))
              /\ NodeAt(s).n_lmbs = 0
              /\ NodeAt(s).lmbs = << >>
        /\ numa.cpu_count =
              SumFn([s \in platform.present |-> Cardinality(platform.cpus[s])])
        /\ numa.lmb_count = 0
        /\ numa.cpuless_lmb_count = 0

\* C10 witness: discovery on the empty topology skipped an absent id and
\* counted at least two CPUs
C10_Witness ==
    /\ last.op = "get_topology"
    /\ last.path = "live_ok"
    /\ last.before.node_count = 0
    /\ \E x \in 0 .. platform.max_node : x \notin platform.present
    /\ numa.cpu_count >= 2
    /\ numa.node_count >= 1

\* C11: when zalloc fails for a valid id with an empty slot, the value
\* ppcnuma_fetch_node returns differs from the one it returns for an
\* invalid id, and the topology is as before the call
C11_OomDistinct ==
    ( /\ last.op = "fetch_node"
      /\ last.path = "oom"
      /\ last.nid \in ArraySlots ) =>
        /\ numa = last.before
        /\ last.ret #
             ppcnuma_fetch_node(numa, heap, MAX_NUMNODES + 1, TRUE).ret

\* the step leaves the nodes and the CPU counts as they were
NodesUntouched ==
    /\ heap' = heap
    /\ numa'.nodes = numa.nodes
    /\ numa'.node_count = numa.node_count
    /\ numa'.node_min = numa.node_min
    /\ numa'.node_max = numa.node_max
    /\ numa'.cpu_count = numa.cpu_count

\* the step is a live ppcnuma_get_topology that reaches read_numa_topology
DiscoveryCalled ==
    /\ last'.op = "get_topology"
    /\ ~test_option
    /\ last'.in.avail1 >= 0
    /\ last'.in.depth >= 0
    /\ last'.in.assoc = 0

\* C12: live discovery called when NUMA is unavailable fails with -ENOENT,
\* called when the maximum node id is >= MAX_NUMNODES fails with -EINVAL,
\* and in both cases creates no node and changes no field of the topology
C12_RejectedBeforeScan ==
    [][ DiscoveryCalled =>
          /\ last'.in.avail2 < 0 =>
                /\ last'.rc = -ENOENT
                /\ NodesUntouched
          /\ (last'.in.avail2 >= 0 /\ platform.max_node >= MAX_NUMNODES) =>
                /\ last'.rc = -EINVAL
                /\ NodesUntouched ]_vars

\* C12 witness: discovery found NUMA unavailable on a topology that an
\* earlier discovery had filled
C12_Witness ==
    /\ last.op = "get_topology"
    /\ last.in.avail1 >= 0
    /\ last.in.avail2 < 0
    /\ last.rc = -ENOENT
    /\ numa.node_count > 0
    /\ numa.cpu_count > 0

\* C13: a live ppcnuma_get_topology returns the error of the first of
\* numa_available, get_min_common_depth and get_assoc_arrays that fails,
\* whatever the later ones would give, and then creates no node and changes
\* no CPU count; nodes or counts change only when all three succeeded
C13_StepsInOrder ==
    [][ (last'.op = "get_topology" /\ ~test_option) =>
          LET in == last'.in
          IN  /\ in.avail1 < 0 =>
                    /\ last'.rc = in.avail1
                    /\ NodesUntouched
                    /\ numa' = numa
              /\ (in.avail1 >= 0 /\ in.depth < 0) =>
                    /\ last'.rc = in.depth
                    /\ NodesUntouched
                    /\ numa' = numa
              /\ (in.avail1 >= 0 /\ in.depth >= 0 /\ in.assoc # 0) =>
                    /\ last'.rc = in.assoc
                    /\ NodesUntouched
              /\ ~NodesUntouched =>
                    (in.avail1 >= 0 /\ in.depth >= 0 /\ in.assoc = 0) ]_vars

\* C13 witness: on a topology an earlier discovery had filled, the depth
\* query failed, the associativity query would have failed too, and the
\* call returned the error of the depth query
C13_Witness ==
    /\ last.op = "get_topology"
    /\ last.in.avail1 >= 0
    /\ last.in.depth < 0
    /\ last.in.assoc # 0
    /\ last.rc = last.in.depth
    /\ last.rc # last.in.assoc
    /\ numa.cpu_count > 0

\* the entries of the load made by the step whose create_lmbs call reached
\* its loop
LoopEntries == { i \in DOMAIN cfg.entries : last'.out[i].list_ok }

\* the number of LMBs the step created for entry i
CreatedBy(i) ==
    Cardinality(last'.out[i].ok \cap (0 .. (cfg.entries[i].mem - 1)))

\* the node the step left at address p, as it was before the step
NodeBefore(p) == IF p \in DOMAIN heap THEN heap[p] ELSE ZeroNode

\* C14: in a load that returns success every create_lmbs call that reaches
\* its loop attempts all its slots whichever of them fail (the counter
\* advances by the counts); each node's n_lmbs and list grow by the number
\* of its slots that succeeded, the old list staying behind the new LMBs,
\* and the two totals grow by the number of successes
C14_FailedSlotsSkipped ==
    [][ (last'.op = "get_topology" /\ last'.path = "cfg_ok") =>
          LET e == cfg.entries
              attempted == SumFn([i \in LoopEntries |-> Blocks(e[i])])
              created == SumFn([i \in LoopEntries |-> CreatedBy(i)])
          IN  /\ drc_index' = IF attempted = 0 THEN drc_index
                              ELSE AddU32(drc_index, attempted)
              /\ \A p \in DOMAIN heap' :
                    LET mine == { i \in LoopEntries : NodeAddr(e[i].nid) = p }
                        k == SumFn([i \in mine |-> CreatedBy(i)])
                        new == heap'[p].lmbs
                    IN  /\ heap'[p].n_lmbs = NodeBefore(p).n_lmbs + k
                        /\ Len(new) = Len(NodeBefore(p).lmbs) + k
                        /\ SubSeq(new, k + 1, Len(new)) = NodeBefore(p).lmbs
              /\ numa'.lmb_count + numa'.cpuless_lmb_count
                    = numa.lmb_count + numa.cpuless_lmb_count + created ]_vars

\* C14 witness: a load gave a node two slots, the first failed and the
\* second gave the node its only LMB
C14_Witness ==
    /\ last.op = "get_topology"
    /\ last.path = "cfg_ok"
    /\ Len(cfg.entries) = 1
    /\ cfg.entries[1].mem = 2
    /\ last.out[1].list_ok
    /\ last.out[1].ok = {1}
    /\ last.before.node_count = 0
    /\ heap[NodeAddr(cfg.entries[1].nid)].n_lmbs = 1
    /\ drc_index = AddU32(<<DRC_SEED_HI, DRC_SEED_LO>>, 2)

\* the counter at the start of the create_lmbs call made for entry i by
\* the load of the step
RECURSIVE DrcAtEntry(_)
DrcAtEntry(i) ==
    IF i = 1 THEN drc_index
    ELSE IF last'.out[i - 1].list_ok
         THEN DrcAfter(DrcAtEntry(i - 1), cfg.entries[i - 1].mem)
         ELSE DrcAtEntry(i - 1)

\* C15: the value drawn for a slot whose allocation failed is not the DRC
\* index of any LMB created later (here: by a later slot of the same load)
C15_FailedIndexNotReused ==
    [][ (last'.op = "get_topology" /\ last'.path = "cfg_ok") =>
          \A i \in LoopEntries, j \in LoopEntries :
            \A a \in AllocOffsets(cfg.entries[i].mem) \ last'.out[i].ok :
              \A b \in AllocOffsets(cfg.entries[j].mem) \cap last'.out[j].ok :
                (i < j \/ (i = j /\ a < b)) =>
                    DrawnIndex(DrcAtEntry(j), b) # DrawnIndex(DrcAtEntry(i), a)
      ]_vars

\* C16: a load that fails at ppcnuma_fetch_node returns failure and leaves
\* the topology and its nodes as they were before the load
C16_LoadAllOrNothing ==
    [][ (last'.op = "get_topology" /\ last'.path = "cfg_fetch_failed") =>
          /\ last'.rc # 0
          /\ numa' = numa
          /\ heap' = heap ]_vars

\* C17: a load sets numa_enabled when it returns 0 and leaves it as it was
\* when it fails
C17_MarkOnSuccess ==
    [][ (last'.op = "get_topology" /\ test_option) =>
          /\ last'.rc = 0 => numa_enabled' = 1
          /\ last'.rc # 0 => numa_enabled' = numa_enabled ]_vars

\* C17 witness: a load created a node and then failed at a later entry; the
\* mark is still unset
C17_Witness ==
    /\ last.op = "get_topology"
    /\ last.path = "cfg_fetch_failed"
    /\ last.rc # 0
    /\ numa.node_count > last.before.node_count
    /\ numa_enabled = 0

\* the slots of the registry that hold a node
Registered == { i \in ArraySlots : numa.nodes[i] # NULL }

\* C18: every populated slot i of the registry holds a node of node_id i,
\* no two slots hold the same node, and node_count is the number of
\* populated slots
C18_RegistryConsistent ==
    /\ \A i \in Registered : heap[numa.nodes[i]].node_id = i
    /\ \A i, j \in Registered : i # j => numa.nodes[i] # numa.nodes[j]
    /\ numa.node_count = Cardinality(Registered)

\* the elements of a finite set of integers in increasing order
RECURSIVE Ascending(_)
Ascending(S) ==
    IF S = {} THEN << >>
    ELSE LET x == SetMin(S) IN <<x>> \o Ascending(S \ {x})

Reverse(q) == [k \in 1 .. Len(q) |-> q[Len(q) + 1 - k]]

\* the DRC indexes of the LMBs the step created for entry i, oldest first
CreatedSeq(i) ==
    LET offs == Ascending(last'.out[i].ok \cap (0 .. (cfg.entries[i].mem - 1)))
    IN  [k \in DOMAIN offs |-> DrawnIndex(DrcAtEntry(i), offs[k])]

\* the LMBs the step allocated to the node at p by entries 1 .. i, oldest
\* first
RECURSIVE AllocatedTo(_, _)
AllocatedTo(p, i) ==
    IF i = 0 THEN << >>
    ELSE AllocatedTo(p, i - 1) \o
         (IF i \in LoopEntries /\ NodeAddr(cfg.entries[i].nid) = p
          THEN CreatedSeq(i) ELSE << >>)

\* C19: a node's list is the LMBs allocated to it, newest first: a load puts
\* the LMBs it allocates to the node, in reverse order, before those the
\* list held; the list is as long as n_lmbs, and no LMB is twice in a list
\* or in the lists of two nodes
C19_ListNewestFirst ==
    [][ /\ (last'.op = "get_topology" /\ last'.path = "cfg_ok") =>
              \A p \in DOMAIN heap' :
                 heap'[p].lmbs =
                    Reverse(AllocatedTo(p, Len(cfg.entries))) \o NodeBefore(p).lmbs
        /\ \A p \in DOMAIN heap' :
              /\ Len(heap'[p].lmbs) = heap'[p].n_lmbs
              /\ \A a, b \in DOMAIN heap'[p].lmbs :
                    a # b => heap'[p].lmbs[a] # heap'[p].lmbs[b]
        /\ \A p, q \in DOMAIN heap' :
              p # q => \A a \in DOMAIN heap'[p].lmbs, b \in DOMAIN heap'[q].lmbs :
                          heap'[p].lmbs[a] # heap'[q].lmbs[b] ]_vars

\* C19 witness: loads gave one node at least two LMBs; its list holds
\* them newest first
C19_Witness ==
    /\ last.op = "get_topology"
    /\ last.path = "cfg_ok"
    /\ \E p \in DOMAIN heap :
          /\ heap[p].n_lmbs >= 2
          /\ \A a, b \in DOMAIN heap[p].lmbs :
                a < b => LessU32(heap[p].lmbs[b], heap[p].lmbs[a])

\* C20: after a live discovery that succeeds, cpu_count is the sum of the
\* n_cpus of the nodes
C20_CpuCountIsSum ==
    (last.op = "get_topology" /\ last.path = "live_ok") =>
        numa.cpu_count = SumFn([s \in Populated(numa) |-> NodeAt(s).n_cpus])
====
